---- MODULE Spec2Model ----
(***************************************************************************)
(* NanoClaw agent runner: the query-loop orchestrator (index.ts main), the *)
(* streaming driver (claude-driver.ts ClaudeDriver, MessageStream), the    *)
(* external-process driver (OpenCodeDriver) and the live-message channel   *)
(* (inbox directory + _close sentinel) they share with the host.           *)
(*                                                                         *)
(* Texts are TLA+ strings, so prompt building is real string               *)
(* concatenation.  JavaScript undefined and null are the two marker        *)
(* strings below; a falsy test (x || y, if (x)) is modelled by Falsy.      *)
(***************************************************************************)
EXTENDS Integers, Sequences, FiniteSets, TLC

VARIABLES
    pc,              \* orchestrator state: Start, Running, AwaitingNext, Terminated, Failed
    stdinValid,      \* whether the JSON document on stdin parses
    containerInput,  \* the parsed ContainerInput
    sessionId,       \* main: let sessionId
    resumeAt,        \* main: let resumeAt
    prompt,          \* main: let prompt
    inbox,           \* message files of IPC_INPUT_DIR, in creation order
    sentinel,        \* whether the _close sentinel file exists
    sentinelOrigin,  \* host: who wrote the last sentinel: none, previous-run, this-run
    sent,            \* host: number of message files written so far
    out,             \* records written by writeOutput, in order
    calls,           \* driver.run invocations: arguments and settled result
    runs             \* per-invocation closure of the driver (stream, poller, subprocess)

vars == <<pc, stdinValid, containerInput, sessionId, resumeAt, prompt, inbox,
          sentinel, sentinelOrigin, sent, out, calls, runs>>

Undefined == "<undefined>"
Null == "<null>"

\* JavaScript truthiness of an optional string
Falsy(x) == x = Undefined \/ x = Null \/ x = ""

(* ------------------------------ bounds -------------------------------- *)
MaxInvocations == 2   \* driver invocations per container lifetime
MaxMessages == 2      \* message files the host writes per container lifetime
MaxEvents == 2        \* events the streaming backend emits per container lifetime

(* --------------------------- value domains ---------------------------- *)
Prompts == {"hello"}
StartSessionIds == {Undefined, "s0"}
\* the k-th message file the host writes holds the text "m<k>"
MessageText(k) == "m" \o ToString(k)
SdkSessionIds == {"s1", "s2"}
AssistantUuids == {"u1"}
ResultTexts == {"hi"}
StdoutChunks == {"out"}
StderrChunks == {"boom"}
ExitCodes == {0, 1}
SpawnErrorMessage == "binary not found"
SpawnErrorCloseCode == -2
BackendErrorMessage == "backend failed"
ParseErrorMessage == "Unexpected token"

ScheduledTaskHeader ==
    "[SCHEDULED TASK - The following message was sent automatically and is not coming directly from the user or group.]\n\n"

DefaultInput ==
    [prompt |-> "hello", sessionId |-> Undefined, isScheduledTask |-> FALSE,
     agentType |-> Undefined]

(* ------------------------ pure helper functions ----------------------- *)

\* Array.prototype.join('\n')
RECURSIVE JoinLines(_)
JoinLines(msgs) ==
    IF msgs = <<>> THEN ""
    ELSE IF Len(msgs) = 1 THEN msgs[1]
    ELSE msgs[1] \o "\n" \o JoinLines(Tail(msgs))

\* index.ts: const agentType = containerInput.agentType || 'claude'
AgentType ==
    IF Falsy(containerInput.agentType) THEN "claude" ELSE containerInput.agentType

\* index.ts: the initial prompt, before pending messages are appended
SeedPrompt ==
    IF containerInput.isScheduledTask
    THEN ScheduledTaskHeader \o containerInput.prompt
    ELSE containerInput.prompt

\* variant bug: prompt += pending.join('\n'), the separating newline forgotten
InitialPromptMissingNewline(pending) ==
    IF Len(pending) > 0
    THEN SeedPrompt \o JoinLines(pending)
    ELSE SeedPrompt

\* index.ts: the initial prompt with the drained pending messages appended
InitialPrompt(pending) ==
    IF Len(pending) > 0
    THEN SeedPrompt \o "\n" \o JoinLines(pending)
    ELSE SeedPrompt

(* ------------------------- live-message channel ----------------------- *)

\* drainIpcInput(): every pending message, in delivery order; the inbox is
\* left empty
DrainIpcInput == inbox

\* shouldClose(): the sentinel is present (and is consumed by the check)
ShouldClose == sentinel

(* --------------------------- outbound records ------------------------- *)

OutRecord(status, result, newSessionId, error) ==
    [status |-> status, result |-> result, newSessionId |-> newSessionId,
     error |-> error]

\* index.ts: writeOutput({ status: 'success', result: null, newSessionId: sessionId })
SessionUpdateRecord(sid) == OutRecord("success", Null, sid, Undefined)

\* index.ts: the record written by the catch around the query loop
FatalRecord(sid, msg) == OutRecord("error", Null, sid, msg)

\* index.ts: the record written when stdin does not parse
ParseFailureRecord ==
    OutRecord("error", Null, Undefined, "Failed to parse input: " \o ParseErrorMessage)

\* variant bug: the result record leaves the captured session id out
ResultRecordNoSession(text, sid) ==
    OutRecord("success", IF Falsy(text) THEN Null ELSE text, Undefined, Undefined)

\* claude-driver.ts: the record written for a result event
ResultRecord(text, sid) ==
    OutRecord("success", IF Falsy(text) THEN Null ELSE text, sid, Undefined)

\* variant bug: the close handler never forwards the captured standard error
CloseRecordNoStderr(code, stdout, stderr, sid) ==
    OutRecord(IF code = 0 THEN "success" ELSE "error",
              IF Falsy(stdout) THEN Null ELSE stdout,
              sid,
              Undefined)

\* opencode-driver: the record written by the close handler
CloseRecord(code, stdout, stderr, sid) ==
    OutRecord(IF code = 0 THEN "success" ELSE "error",
              IF Falsy(stdout) THEN Null ELSE stdout,
              sid,
              IF code # 0 THEN stderr ELSE Undefined)

\* opencode-driver: the record written by the error handler
SpawnErrorRecord(msg) == OutRecord("error", Null, Undefined, msg)

(* ------------------------------ drivers ------------------------------- *)

\* variant bug: push appends without calling this.waiting
StreamPushNoWake(s, text) ==
    [s EXCEPT !.queue = Append(@, text),
              !.pushed = Append(@, text)]

\* MessageStream.push on a stream record (pushed: every text pushed so far)
StreamPush(s, text) ==
    [s EXCEPT !.queue = Append(@, text),
              !.pushed = Append(@, text),
              !.gen = IF @ = "suspended" THEN "woken" ELSE @]

\* MessageStream.end on a stream record (endAt: number of pushes before end)
StreamEnd(s) ==
    [s EXCEPT !.done = TRUE,
              !.endAt = Len(s.pushed),
              !.gen = IF @ = "suspended" THEN "woken" ELSE @]

\* variant bug: the drained messages are pushed last first
RECURSIVE StreamPushAllReversed(_, _)
StreamPushAllReversed(s, texts) ==
    IF texts = <<>> THEN s
    ELSE StreamPush(StreamPushAllReversed(s, Tail(texts)), Head(texts))

\* pollIpcDuringQuery: for (const text of messages) stream.push(text)
RECURSIVE StreamPushAll(_, _)
StreamPushAll(s, texts) ==
    IF texts = <<>> THEN s
    ELSE StreamPushAll(StreamPush(s, Head(texts)), Tail(texts))

\* new MessageStream(); gen is the generator: idle (not started, or stopped at
\* a yield), suspended (awaiting, this.waiting set), woken (this.waiting
\* called, not yet resumed), returned; fed lists the texts it has yielded
NewStream ==
    [queue |-> <<>>, done |-> FALSE, gen |-> "idle", pushed |-> <<>>,
     fed |-> <<>>, endAt |-> 0]

\* ClaudeDriver.run up to the call of query(): the closure of one invocation
ClaudeClosure(p) ==
    [kind |-> "claude",
     stream |-> StreamPush(NewStream, p),
     ipcPolling |-> TRUE,
     closedDuringQuery |-> FALSE,
     timer |-> TRUE,
     newSessionId |-> Undefined,
     lastAssistantUuid |-> Undefined,
     events |-> <<>>]

\* OpenCodeDriver.run up to spawn(): the closure of one invocation
\* (exitCode is <<>> until the subprocess has closed, then <<code>>)
OpenCodeClosure(sid) ==
    [kind |-> "opencode",
     sessionId |-> sid,
     stdout |-> "",
     stderr |-> "",
     proc |-> "running",
     exitCode |-> <<>>]

QueryResult(nsid, uuid, closed) ==
    [newSessionId |-> nsid, lastAssistantUuid |-> uuid, closedDuringQuery |-> closed]

\* driver.run(prompt, sessionId, resumeAt): the call and the closure it
\* creates; result is the promise's value, which is read once settled
NewCall(p, sid, rat) ==
    [prompt |-> p, sessionId |-> sid, resumeAt |-> rat, settled |-> FALSE,
     threw |-> FALSE, result |-> QueryResult(Undefined, Undefined, FALSE)]

NewClosure(p, sid) ==
    IF AgentType = "opencode" THEN OpenCodeClosure(sid) ELSE ClaudeClosure(p)

Cur == Len(calls)

InFlight == {i \in DOMAIN calls : ~calls[i].settled}

(* ----------------------------- orchestrator --------------------------- *)

\* main, stdin does not parse: one error record, process.exit(1)
MainParseFails ==
    /\ pc = "Start"
    /\ ~stdinValid
    /\ out' = Append(out, ParseFailureRecord)
    /\ pc' = "Failed"
    /\ UNCHANGED <<stdinValid, containerInput, sessionId, resumeAt, prompt, inbox,
                   sentinel, sentinelOrigin, sent, calls, runs>>

\* variant bug: driver.run is not awaited, main goes on to waitForIpcMessage
MainStartNoAwait ==
    /\ pc = "Start"
    /\ stdinValid
    /\ LET pending == DrainIpcInput
           p == InitialPrompt(pending)
       IN  /\ prompt' = p
           /\ sessionId' = containerInput.sessionId
           /\ calls' = Append(calls, NewCall(p, containerInput.sessionId, Undefined))
           /\ runs' = Append(runs, NewClosure(p, containerInput.sessionId))
    /\ inbox' = <<>>
    /\ sentinel' = FALSE
    /\ pc' = "AwaitingNext"
    /\ UNCHANGED <<stdinValid, containerInput, resumeAt, sentinelOrigin, sent, out>>

\* variant bug: the stale sentinel is not unlinked at startup
MainStartKeepsSentinel ==
    /\ pc = "Start"
    /\ stdinValid
    /\ LET pending == DrainIpcInput
           p == InitialPrompt(pending)
       IN  /\ prompt' = p
           /\ sessionId' = containerInput.sessionId
           /\ calls' = Append(calls, NewCall(p, containerInput.sessionId, Undefined))
           /\ runs' = Append(runs, NewClosure(p, containerInput.sessionId))
    /\ inbox' = <<>>
    /\ pc' = "Running"
    /\ UNCHANGED <<stdinValid, containerInput, resumeAt, sentinel, sentinelOrigin,
                   sent, out>>

\* main, from the parsed input to the first driver.run
MainStart ==
    /\ pc = "Start"
    /\ stdinValid
    /\ LET pending == DrainIpcInput
           p == InitialPrompt(pending)
       IN  /\ prompt' = p
           /\ sessionId' = containerInput.sessionId
           /\ calls' = Append(calls, NewCall(p, containerInput.sessionId, Undefined))
           /\ runs' = Append(runs, NewClosure(p, containerInput.sessionId))
    /\ inbox' = <<>>
    /\ sentinel' = FALSE
    /\ pc' = "Running"
    /\ UNCHANGED <<stdinValid, containerInput, resumeAt, sentinelOrigin, sent, out>>

\* variant bug: closedDuringQuery is not looked at
OrchestratorResumeIgnoresClose(qr, o) ==
    LET sid == IF Falsy(qr.newSessionId) THEN sessionId ELSE qr.newSessionId
    IN  /\ sessionId' = sid
        /\ resumeAt' = IF Falsy(qr.lastAssistantUuid) THEN resumeAt
                       ELSE qr.lastAssistantUuid
        /\ pc' = "AwaitingNext"
        /\ out' = Append(o, SessionUpdateRecord(sid))

\* variant bug: sessionId = queryResult.newSessionId without the guard
OrchestratorResumeOverwritesSession(qr, o) ==
    LET sid == qr.newSessionId
    IN  /\ sessionId' = sid
        /\ resumeAt' = IF Falsy(qr.lastAssistantUuid) THEN resumeAt
                       ELSE qr.lastAssistantUuid
        /\ IF qr.closedDuringQuery
           THEN /\ pc' = "Terminated"
                /\ out' = o
           ELSE /\ pc' = "AwaitingNext"
                /\ out' = Append(o, SessionUpdateRecord(sid))

\* variant bug: the session-update record is written before sessionId is updated
OrchestratorResumeStaleSession(qr, o) ==
    LET sid == IF Falsy(qr.newSessionId) THEN sessionId ELSE qr.newSessionId
    IN  /\ sessionId' = sid
        /\ resumeAt' = IF Falsy(qr.lastAssistantUuid) THEN resumeAt
                       ELSE qr.lastAssistantUuid
        /\ IF qr.closedDuringQuery
           THEN /\ pc' = "Terminated"
                /\ out' = o
           ELSE /\ pc' = "AwaitingNext"
                /\ out' = Append(o, SessionUpdateRecord(sessionId))

\* variant bug: resumeAt = queryResult.lastAssistantUuid without the guard
OrchestratorResumeOverwritesMarker(qr, o) ==
    LET sid == IF Falsy(qr.newSessionId) THEN sessionId ELSE qr.newSessionId
    IN  /\ sessionId' = sid
        /\ resumeAt' = qr.lastAssistantUuid
        /\ IF qr.closedDuringQuery
           THEN /\ pc' = "Terminated"
                /\ out' = o
           ELSE /\ pc' = "AwaitingNext"
                /\ out' = Append(o, SessionUpdateRecord(sid))

\* main, after `await driver.run(...)` resolves with qr; o is the outbound log
\* as the driver left it
OrchestratorResume(qr, o) ==
    LET sid == IF Falsy(qr.newSessionId) THEN sessionId ELSE qr.newSessionId
    IN  /\ sessionId' = sid
        /\ resumeAt' = IF Falsy(qr.lastAssistantUuid) THEN resumeAt
                       ELSE qr.lastAssistantUuid
        /\ IF qr.closedDuringQuery
           THEN /\ pc' = "Terminated"
                /\ out' = o
           ELSE /\ pc' = "AwaitingNext"
                /\ out' = Append(o, SessionUpdateRecord(sid))

\* variant bug: the catch exits without reporting
OrchestratorCatchSilent(msg) ==
    /\ pc' = "Failed"
    /\ UNCHANGED <<out, sessionId, resumeAt>>

\* variant bug: the catch reports the error and the loop carries on
OrchestratorCatchRetries(msg) ==
    /\ out' = Append(out, FatalRecord(sessionId, msg))
    /\ pc' = "AwaitingNext"
    /\ UNCHANGED <<sessionId, resumeAt>>

\* main, the catch around the query loop
OrchestratorCatch(msg) ==
    /\ out' = Append(out, FatalRecord(sessionId, msg))
    /\ pc' = "Failed"
    /\ UNCHANGED <<sessionId, resumeAt>>

\* variant bug: prompt += '\n' + nextMessage
NextPromptConcatenated(nextMessage) == prompt \o "\n" \o nextMessage

\* index.ts: prompt = nextMessage
NextPrompt(nextMessage) == nextMessage

\* waitForIpcMessage returns the earliest message; it becomes the next prompt
WaitReturnsMessage ==
    /\ pc = "AwaitingNext"
    /\ inbox # <<>>
    /\ Cur < MaxInvocations
    /\ LET msg == Head(inbox)
           p == NextPrompt(msg)
       IN  /\ prompt' = p
           /\ calls' = Append(calls, NewCall(p, sessionId, resumeAt))
           /\ runs' = Append(runs, NewClosure(p, sessionId))
    /\ inbox' = Tail(inbox)
    /\ pc' = "Running"
    /\ UNCHANGED <<stdinValid, containerInput, sessionId, resumeAt, sentinel,
                   sentinelOrigin, sent, out>>

\* variant bug: main does not leave the loop on null and waits again
AfterCloseSignalKeepsWaiting == "AwaitingNext"

\* index.ts: if (nextMessage === null) break, and main returns
AfterCloseSignal == "Terminated"

\* waitForIpcMessage returns the terminate signal
WaitReturnsClose ==
    /\ pc = "AwaitingNext"
    /\ inbox = <<>>
    /\ ShouldClose
    /\ sentinel' = FALSE
    /\ pc' = AfterCloseSignal
    /\ UNCHANGED <<stdinValid, containerInput, sessionId, resumeAt, prompt, inbox,
                   sentinelOrigin, sent, out, calls, runs>>

(* --------------------------- streaming driver ------------------------- *)

ClaudeRunning == pc = "Running" /\ Cur > 0 /\ runs[Cur].kind = "claude"

\* pollIpcDuringQuery of invocation i, when its timer fires
PollIpcDuringQuery(i) ==
    /\ pc # "Failed"
    /\ runs[i].kind = "claude"
    /\ runs[i].timer
    /\ IF ~runs[i].ipcPolling
       THEN /\ runs' = [runs EXCEPT ![i].timer = FALSE]
            /\ UNCHANGED <<inbox, sentinel>>
       ELSE IF ShouldClose
       THEN /\ sentinel' = FALSE
            /\ runs' = [runs EXCEPT ![i].closedDuringQuery = TRUE,
                                    ![i].stream = StreamEnd(@),
                                    ![i].ipcPolling = FALSE,
                                    ![i].timer = FALSE]
            /\ UNCHANGED inbox
       ELSE /\ runs' = [runs EXCEPT ![i].stream = StreamPushAll(@, DrainIpcInput)]
            /\ inbox' = <<>>
            /\ UNCHANGED sentinel
    /\ UNCHANGED <<pc, stdinValid, containerInput, sessionId, resumeAt, prompt,
                   sentinelOrigin, sent, out, calls>>

\* the backend asks the MessageStream generator for its next message; the
\* backend's reads of the feed change nothing main or the poller reads, so
\* Next leaves them out and FeedNext schedules them
StreamNext ==
    /\ ClaudeRunning
    /\ LET s == runs[Cur].stream
       IN  /\ s.gen \in {"idle", "woken"}
           /\ IF s.queue # <<>>
              THEN runs' = [runs EXCEPT ![Cur].stream.queue = Tail(@),
                                        ![Cur].stream.fed = Append(@, Head(s.queue)),
                                        ![Cur].stream.gen = "idle"]
              ELSE IF s.done
              THEN runs' = [runs EXCEPT ![Cur].stream.gen = "returned"]
              ELSE runs' = [runs EXCEPT ![Cur].stream.gen = "suspended"]
    /\ UNCHANGED <<pc, stdinValid, containerInput, sessionId, resumeAt, prompt, inbox,
                   sentinel, sentinelOrigin, sent, out, calls>>

\* number of events the backend has emitted over the invocations 1..n
RECURSIVE EventsEmitted(_)
EventsEmitted(n) ==
    IF n = 0 THEN 0
    ELSE (IF runs[n].kind = "claude" THEN Len(runs[n].events) ELSE 0)
         + EventsEmitted(n - 1)

\* the events of the backend the driver reacts to
SdkEvents ==
    [type : {"init"}, value : SdkSessionIds]
        \cup [type : {"assistant"}, value : AssistantUuids]
        \cup [type : {"result"}, value : ResultTexts]

\* variant bug: the result record carries the session id run was called with
ClaudeEventUsesRunSession(ev) ==
    /\ ClaudeRunning
    /\ EventsEmitted(Cur) < MaxEvents
    /\ runs' = [runs EXCEPT
                  ![Cur].events = Append(@, ev),
                  ![Cur].lastAssistantUuid =
                      IF ev.type = "assistant" THEN ev.value ELSE @,
                  ![Cur].newSessionId =
                      IF ev.type = "init" THEN ev.value ELSE @]
    /\ out' = IF ev.type = "result"
              THEN Append(out, ResultRecord(ev.value, calls[Cur].sessionId))
              ELSE out
    /\ UNCHANGED <<pc, stdinValid, containerInput, sessionId, resumeAt, prompt, inbox,
                   sentinel, sentinelOrigin, sent, calls>>

\* one iteration of `for await (const message of query(...))`
ClaudeEvent(ev) ==
    /\ ClaudeRunning
    /\ EventsEmitted(Cur) < MaxEvents
    /\ runs' = [runs EXCEPT
                  ![Cur].events = Append(@, ev),
                  ![Cur].lastAssistantUuid =
                      IF ev.type = "assistant" THEN ev.value ELSE @,
                  ![Cur].newSessionId =
                      IF ev.type = "init" THEN ev.value ELSE @]
    /\ out' = IF ev.type = "result"
              THEN Append(out, ResultRecord(ev.value, runs[Cur].newSessionId))
              ELSE out
    /\ UNCHANGED <<pc, stdinValid, containerInput, sessionId, resumeAt, prompt, inbox,
                   sentinel, sentinelOrigin, sent, calls>>

\* variant bug: run returns without clearing ipcPolling
ClaudeReturnsLeavesPolling ==
    /\ ClaudeRunning
    /\ LET c == runs[Cur]
           qr == QueryResult(c.newSessionId, c.lastAssistantUuid, c.closedDuringQuery)
       IN  /\ runs' = runs
           /\ calls' = [calls EXCEPT ![Cur].settled = TRUE, ![Cur].result = qr]
           /\ OrchestratorResume(qr, out)
    /\ UNCHANGED <<stdinValid, containerInput, prompt, inbox, sentinel,
                   sentinelOrigin, sent>>

\* the query loop completes: ClaudeDriver.run returns, main resumes
ClaudeReturns ==
    /\ ClaudeRunning
    /\ LET c == runs[Cur]
           qr == QueryResult(c.newSessionId, c.lastAssistantUuid, c.closedDuringQuery)
       IN  /\ runs' = [runs EXCEPT ![Cur].ipcPolling = FALSE]
           /\ calls' = [calls EXCEPT ![Cur].settled = TRUE, ![Cur].result = qr]
           /\ OrchestratorResume(qr, out)
    /\ UNCHANGED <<stdinValid, containerInput, prompt, inbox, sentinel,
                   sentinelOrigin, sent>>

\* the query loop raises: ClaudeDriver.run rejects, main's catch runs
ClaudeThrows ==
    /\ ClaudeRunning
    /\ calls' = [calls EXCEPT ![Cur].settled = TRUE, ![Cur].threw = TRUE]
    /\ OrchestratorCatch(BackendErrorMessage)
    /\ UNCHANGED <<stdinValid, containerInput, prompt, inbox, sentinel,
                   sentinelOrigin, sent, runs>>

(* ------------------------ external-process driver --------------------- *)

\* proc.stdout.on('data')
ProcStdout(i, chunk) ==
    /\ pc # "Failed"
    /\ runs[i].kind = "opencode"
    /\ runs[i].proc = "running"
    /\ runs[i].stdout = ""
    /\ runs' = [runs EXCEPT ![i].stdout = @ \o chunk]
    /\ UNCHANGED <<pc, stdinValid, containerInput, sessionId, resumeAt, prompt, inbox,
                   sentinel, sentinelOrigin, sent, out, calls>>

\* proc.stderr.on('data')
ProcStderr(i, chunk) ==
    /\ pc # "Failed"
    /\ runs[i].kind = "opencode"
    /\ runs[i].proc = "running"
    /\ runs[i].stderr = ""
    /\ runs' = [runs EXCEPT ![i].stderr = @ \o chunk]
    /\ UNCHANGED <<pc, stdinValid, containerInput, sessionId, resumeAt, prompt, inbox,
                   sentinel, sentinelOrigin, sent, out, calls>>

\* resolve(qr) of invocation i after its handlers wrote o: main resumes with
\* the value of the first resolve
ProcSettle(i, qr, o) ==
    /\ ~calls[i].settled
    /\ calls' = [calls EXCEPT ![i].settled = TRUE, ![i].result = qr]
    /\ OrchestratorResume(qr, o)

\* variant bug: the close handler looks for the sentinel, as the poller does
ProcCloseReadsSentinel(i, code) ==
    /\ pc # "Failed"
    /\ runs[i].kind = "opencode"
    /\ runs[i].proc = "running"
    /\ code \in ExitCodes
    /\ LET c == runs[i]
           newSessionId == c.sessionId
       IN  ProcSettle(i, QueryResult(newSessionId, Undefined, ShouldClose),
                      Append(out, CloseRecord(code, c.stdout, c.stderr, newSessionId)))
    /\ runs' = [runs EXCEPT ![i].proc = "closed", ![i].exitCode = <<code>>]
    /\ sentinel' = FALSE
    /\ UNCHANGED <<stdinValid, containerInput, prompt, inbox, sentinelOrigin, sent>>

\* proc.on('close') of a subprocess that was spawned and has exited
ProcClose(i, code) ==
    /\ pc # "Failed"
    /\ runs[i].kind = "opencode"
    /\ runs[i].proc = "running"
    /\ code \in ExitCodes
    /\ LET c == runs[i]
           newSessionId == c.sessionId
       IN  ProcSettle(i, QueryResult(newSessionId, Undefined, FALSE),
                      Append(out, CloseRecord(code, c.stdout, c.stderr, newSessionId)))
    /\ runs' = [runs EXCEPT ![i].proc = "closed", ![i].exitCode = <<code>>]
    /\ UNCHANGED <<stdinValid, containerInput, prompt, inbox, sentinel,
                   sentinelOrigin, sent>>

\* the subprocess could not be spawned: the child emits 'error' and then, in
\* the same tick, 'close' with the negative errno, so proc.on('error') and
\* proc.on('close') both run before main resumes; the promise keeps the
\* value of the first resolve
ProcError(i) ==
    /\ pc # "Failed"
    /\ runs[i].kind = "opencode"
    /\ runs[i].proc = "running"
    /\ runs[i].stdout = "" /\ runs[i].stderr = ""
    /\ LET c == runs[i]
           afterError == Append(out, SpawnErrorRecord(SpawnErrorMessage))
           afterClose == Append(afterError,
                                CloseRecord(SpawnErrorCloseCode, c.stdout, c.stderr,
                                            c.sessionId))
       IN  ProcSettle(i, QueryResult(Undefined, Undefined, FALSE), afterClose)
    /\ runs' = [runs EXCEPT ![i].proc = "closed", ![i].exitCode = <<SpawnErrorCloseCode>>]
    /\ UNCHANGED <<stdinValid, containerInput, prompt, inbox, sentinel,
                   sentinelOrigin, sent>>

(* --------------------------------- host ------------------------------- *)

Alive == pc \notin {"Terminated", "Failed"}

\* the host writes one message file into the inbox
HostWriteMessage ==
    /\ Alive
    /\ sent < MaxMessages
    /\ inbox' = Append(inbox, MessageText(sent + 1))
    /\ sent' = sent + 1
    /\ UNCHANGED <<pc, stdinValid, containerInput, sessionId, resumeAt, prompt,
                   sentinel, sentinelOrigin, out, calls, runs>>

\* the host writes the _close sentinel
HostWriteClose ==
    /\ Alive
    /\ pc # "Start"
    /\ sentinelOrigin # "this-run"
    /\ sentinel' = TRUE
    /\ sentinelOrigin' = "this-run"
    /\ UNCHANGED <<pc, stdinValid, containerInput, sessionId, resumeAt, prompt, inbox,
                   sent, out, calls, runs>>

(* ---------------------------- specification --------------------------- *)

Init ==
    /\ pc = "Start"
    /\ stdinValid \in BOOLEAN
    /\ containerInput \in
         IF stdinValid
         THEN [prompt : Prompts, sessionId : StartSessionIds,
               isScheduledTask : BOOLEAN, agentType : {Undefined, "opencode"}]
         ELSE {DefaultInput}
    /\ sessionId = Undefined
    /\ resumeAt = Undefined
    /\ prompt = Undefined
    /\ inbox = <<>>
    /\ sentinelOrigin \in {"none", "previous-run"}
    /\ sentinel = (sentinelOrigin = "previous-run")
    /\ sent = 0
    /\ out = <<>>
    /\ calls = <<>>
    /\ runs = <<>>

Next ==
    \/ MainParseFails
    \/ MainStart
    \/ WaitReturnsMessage
    \/ WaitReturnsClose
    \/ \E i \in DOMAIN runs : PollIpcDuringQuery(i)
    \/ \E ev \in SdkEvents : ClaudeEvent(ev)
    \/ ClaudeReturns
    \/ ClaudeThrows
    \/ \E i \in DOMAIN runs, chunk \in StdoutChunks : ProcStdout(i, chunk)
    \/ \E i \in DOMAIN runs, chunk \in StderrChunks : ProcStderr(i, chunk)
    \/ \E i \in DOMAIN runs, code \in ExitCodes : ProcClose(i, code)
    \/ \E i \in DOMAIN runs : ProcError(i)
    \/ HostWriteMessage
    \/ HostWriteClose

Spec == Init /\ [][Next]_vars

(* ------------------------------- claims ------------------------------- *)

\* the prompt p followed by each message of msgs on a line of its own
RECURSIVE WithLines(_, _)
WithLines(p, msgs) ==
    IF msgs = <<>> THEN p
    ELSE WithLines(p \o "\n" \o Head(msgs), Tail(msgs))

FirstCallStarts == pc = "Start" /\ pc' = "Running"

\* C1 as stated: the first prompt is the input's prompt followed by the
\* pending messages, in arrival order, one per line.
C1_FirstPromptIsInputPrompt ==
    [][FirstCallStarts => calls'[1].prompt = WithLines(containerInput.prompt, inbox)]_vars

\* C1 amended: the first prompt is the input's prompt, preceded by the
\* scheduled-task notice when isScheduledTask is set, followed by the messages
\* pending at startup in arrival order, one per line, none dropped or repeated.
C1_FirstPrompt ==
    [][FirstCallStarts =>
         calls'[1].prompt =
            WithLines(IF containerInput.isScheduledTask
                      THEN ScheduledTaskHeader \o containerInput.prompt
                      ELSE containerInput.prompt,
                      inbox)]_vars

C1_Witness ==
    /\ pc = "Running"
    /\ Len(calls) = 1
    /\ containerInput.isScheduledTask
    /\ calls[1].prompt = ScheduledTaskHeader \o "hello\nm1\nm2"

\* the streaming invocation that is in flight resolves in this step
ClaudeResolves ==
    /\ pc = "Running" /\ Cur > 0 /\ runs[Cur].kind = "claude"
    /\ calls'[Cur].settled /\ ~calls'[Cur].threw

StraightToTerminated ==
    /\ calls'[Cur].result.closedDuringQuery
    /\ pc' = "Terminated"
    /\ out' = out

\* C2 as stated: a streaming invocation that resolves while the sentinel is
\* visible returns closedDuringQuery = true and the orchestrator terminates
\* without a session-update record and without a wait.
C2_VisibleSentinelClosesQuery ==
    [][ClaudeResolves /\ sentinel => StraightToTerminated]_vars

\* C2 amended: once the poller of a streaming invocation has observed the
\* sentinel, the invocation's QueryResult (if it resolves) has
\* closedDuringQuery = true and the orchestrator goes from Running straight to
\* Terminated, with no session-update record and no wait.
C2_ObservedSentinelClosesQuery ==
    [][/\ \A i \in DOMAIN runs :
             (/\ runs[i].kind = "claude" /\ runs[i].timer /\ runs[i].ipcPolling
              /\ sentinel /\ ~runs'[i].timer)
             => runs'[i].closedDuringQuery /\ runs'[i].stream.done
       /\ \A i \in DOMAIN runs :
             (runs[i].kind = "claude" /\ runs[i].closedDuringQuery)
             => runs'[i].closedDuringQuery
       /\ (ClaudeResolves /\ runs[Cur].closedDuringQuery) => StraightToTerminated
      ]_vars

C2_Witness ==
    /\ pc = "Terminated"
    /\ Cur > 0
    /\ runs[Cur].kind = "claude"
    /\ calls[Cur].settled /\ ~calls[Cur].threw
    /\ calls[Cur].result.closedDuringQuery
    /\ Len(runs[Cur].events) > 0

\* C3: when messages and the sentinel are both present, the messages are
\* drained and delivered before the decision to terminate: the poller that
\* closes the feed has pushed every pending message first, and the wait
\* returns the terminate signal only with an empty inbox.
C3_DrainBeforeTerminate ==
    [][/\ \A i \in DOMAIN runs :
             (runs[i].kind = "claude" /\ ~runs[i].closedDuringQuery
              /\ runs'[i].closedDuringQuery)
             => /\ inbox' = <<>>
                /\ Len(runs'[i].stream.queue) = Len(runs[i].stream.queue) + Len(inbox)
       /\ (pc = "AwaitingNext" /\ pc' = "Terminated") => inbox = <<>>
      ]_vars

\* C4: a spawn failure leaves exactly one record, the error record of the
\* failure, as the last record written, and the loop has terminated.
C4_SpawnFailureTerminates ==
    \A k \in DOMAIN out :
        out[k] = [status |-> "error", result |-> Null, newSessionId |-> Undefined,
                  error |-> SpawnErrorMessage]
        => k = Len(out) /\ pc \in {"Terminated", "Failed"}

\* the subprocess of invocation i exits in this step with a non-zero code
ClosesNonZero(i) ==
    /\ runs[i].kind = "opencode"
    /\ runs[i].proc # "closed"
    /\ runs'[i].proc = "closed"
    /\ runs'[i].exitCode \in {<<code>> : code \in ExitCodes \ {0}}

\* C5 as stated: a non-zero exit writes a record with status error, the
\* captured standard error as error text and result null.
C5_NonZeroExitResultNull ==
    [][\A i \in DOMAIN runs :
          ClosesNonZero(i) =>
             /\ Len(out') > Len(out)
             /\ out'[Len(out) + 1].status = "error"
             /\ out'[Len(out) + 1].error = runs[i].stderr
             /\ out'[Len(out) + 1].result = Null]_vars

\* C5 amended: a non-zero exit writes a record with status error and the
\* captured standard error as error text; its result is the captured standard
\* output, or null when nothing was captured on standard output.
C5_NonZeroExitRecord ==
    [][\A i \in DOMAIN runs :
          ClosesNonZero(i) =>
             /\ Len(out') > Len(out)
             /\ out'[Len(out) + 1].status = "error"
             /\ out'[Len(out) + 1].error = runs[i].stderr
             /\ out'[Len(out) + 1].result =
                   IF runs[i].stdout = "" THEN Null ELSE runs[i].stdout]_vars

C5_Witness ==
    \E i \in DOMAIN runs :
        /\ runs[i].kind = "opencode"
        /\ runs[i].proc = "closed"
        /\ runs[i].exitCode = <<1>>
        /\ runs[i].stdout = "out"
        /\ \E k \in DOMAIN out :
              out[k] = [status |-> "error", result |-> "out",
                        newSessionId |-> runs[i].sessionId, error |-> "boom"]

ErrorRecords == {k \in DOMAIN out : out[k].status = "error"}

\* C6: every fatal condition (stdin that does not parse, a driver invocation
\* that raises) ends the process with exactly one error record written, as the
\* last record, and the process never ends on a fatal condition otherwise.
C6_FatalWritesOneErrorRecord ==
    /\ (pc = "Failed") =>
          /\ Cardinality(ErrorRecords) = 1
          /\ out[Len(out)].status = "error"
    /\ \A i \in DOMAIN calls : calls[i].threw => pc = "Failed"
    /\ (~stdinValid /\ pc # "Start") => pc = "Failed"
    /\ (pc = "Failed") => (~stdinValid \/ (Cur > 0 /\ calls[Cur].threw))

C6_Witness ==
    /\ pc = "Failed"
    /\ Cur = 2
    /\ calls[Cur].threw
    /\ Len(out) >= 3
    /\ out[1].status = "success"

\* C7: at most one driver invocation is in flight in every reachable state, and
\* a further invocation starts only when the earlier ones have resolved and
\* the wait has returned a message, which is its prompt.
C7_OneInFlight ==
    /\ [](Cardinality(InFlight) <= 1)
    /\ [][(Len(calls') > Len(calls) /\ Len(calls) > 0) =>
             /\ InFlight = {}
             /\ pc = "AwaitingNext"
             /\ inbox # <<>>
             /\ calls'[Len(calls')].prompt = Head(inbox)]_vars

C7_Witness ==
    /\ pc = "Running"
    /\ Len(calls) = 2
    /\ calls[1].settled
    /\ InFlight = {2}

\* C8: the sessionId argument of an invocation is the session id the previous
\* invocation returned, or, when it returned none, the sessionId argument the
\* previous invocation was given.
C8_SessionRoundTrip ==
    \A i \in DOMAIN calls :
        (i + 1 \in DOMAIN calls) =>
            /\ calls[i].settled /\ ~calls[i].threw
            /\ calls[i + 1].sessionId =
                  IF calls[i].result.newSessionId = Undefined
                  THEN calls[i].sessionId
                  ELSE calls[i].result.newSessionId

C8_Witness ==
    /\ Len(calls) = 2
    /\ calls[1].sessionId = "s0"
    /\ calls[1].result.newSessionId = "s1"
    /\ calls[2].sessionId = "s1"

\* the run of C9: prompt "hello", nothing pending, a streaming backend that
\* emits init "s1", then a result "hi", then completes normally
C9_Scenario ==
    /\ pc = "AwaitingNext"
    /\ Len(calls) = 1
    /\ runs[1].kind = "claude"
    /\ calls[1].prompt = "hello"
    /\ runs[1].events = << [type |-> "init", value |-> "s1"],
                           [type |-> "result", value |-> "hi"] >>

\* C9 as stated: in that run the records written when the loop enters
\* AwaitingNext are the single result record, and sessionId is "s1".
C9_SingleRecord ==
    C9_Scenario =>
        /\ out = << [status |-> "success", result |-> "hi", newSessionId |-> "s1",
                     error |-> Undefined] >>
        /\ sessionId = "s1"

\* C9 amended: in that run the records written when the loop enters
\* AwaitingNext are the result record (success, "hi", "s1") followed by the
\* session-update record (success, null, "s1"), and sessionId is "s1".
C9_ResultThenSessionUpdate ==
    C9_Scenario =>
        /\ out = << [status |-> "success", result |-> "hi", newSessionId |-> "s1",
                     error |-> Undefined],
                    [status |-> "success", result |-> Null, newSessionId |-> "s1",
                     error |-> Undefined] >>
        /\ sessionId = "s1"

C9_Witness == C9_Scenario /\ Len(out) = 2

\* C10: a sentinel left by a previous container lifetime is gone once the
\* first invocation starts; only a sentinel written during this lifetime closes
\* an invocation or ends the run.
C10_StaleSentinelCleared ==
    /\ (Len(calls) > 0 /\ sentinelOrigin # "this-run") => ~sentinel
    /\ \A i \in DOMAIN runs :
          (runs[i].kind = "claude" /\ runs[i].closedDuringQuery)
          => sentinelOrigin = "this-run"
    /\ (pc = "Terminated") => sentinelOrigin = "this-run"

C10_Witness ==
    /\ sentinelOrigin = "previous-run"
    /\ pc = "AwaitingNext"
    /\ Len(calls) = 1
    /\ ~calls[1].result.closedDuringQuery

(* ---------------- C11: session update after a normal completion -------- *)

\* the current invocation resolves in this step without closedDuringQuery
ResolvesNormally ==
    /\ Cur > 0
    /\ Len(calls') = Cur
    /\ ~calls[Cur].settled
    /\ calls'[Cur].settled
    /\ ~calls'[Cur].threw
    /\ ~calls'[Cur].result.closedDuringQuery

\* the records the driver's own handlers write in the step that resolves it
RecordsOfResolvingHandler ==
    IF runs[Cur].kind = "claude" THEN 0
    ELSE IF runs'[Cur].exitCode = <<SpawnErrorCloseCode>> THEN 2 ELSE 1

\* C11: when an invocation resolves with closedDuringQuery false, sessionId and
\* resumeAt take the result's values where it has them, and exactly one
\* record is appended after the driver's own, a success record with a null
\* result carrying the updated sessionId, before the orchestrator waits
C11_SessionUpdateAfterCompletion ==
    [][ResolvesNormally =>
         LET qr == calls'[Cur].result
             k == Len(out) + RecordsOfResolvingHandler
         IN  /\ sessionId' = IF Falsy(qr.newSessionId) THEN sessionId
                             ELSE qr.newSessionId
             /\ resumeAt' = IF Falsy(qr.lastAssistantUuid) THEN resumeAt
                            ELSE qr.lastAssistantUuid
             /\ Len(out') = k + 1
             /\ SubSeq(out', 1, Len(out)) = out
             /\ out'[k + 1] = [status |-> "success", result |-> Null,
                               newSessionId |-> sessionId', error |-> Undefined]
             /\ pc' = "AwaitingNext"]_vars

C11_Witness ==
    /\ pc = "AwaitingNext"
    /\ Cur = 1
    /\ calls[1].sessionId = "s0"
    /\ calls[1].settled
    /\ calls[1].result.newSessionId = "s1"
    /\ calls[1].result.lastAssistantUuid = "u1"
    /\ sessionId = "s1"
    /\ resumeAt = "u1"
    /\ out = <<[status |-> "success", result |-> Null, newSessionId |-> "s1",
                error |-> Undefined]>>

(* ---------------- C12: waitForIpcMessage hands over one message -------- *)

\* waitForIpcMessage returns a message in this step and the next run starts
WaitHandsOverMessage == pc = "AwaitingNext" /\ Len(calls') = Cur + 1

\* the texts that have already been a prompt of, or pushed to the feed of,
\* an invocation
DeliveredTexts ==
    {calls[i].prompt : i \in DOMAIN calls} \cup
    UNION {{runs[i].stream.pushed[j] : j \in DOMAIN runs[i].stream.pushed} :
             i \in {n \in DOMAIN runs : runs[n].kind = "claude"}}

\* C12: when waitForIpcMessage returns a message it is the earliest one in
\* the inbox, it leaves the inbox and the later ones stay in their order, it
\* has not been delivered before, and it is the next invocation's prompt
\* verbatim
C12_EarliestMessageIsNextPrompt ==
    [][WaitHandsOverMessage =>
         /\ inbox # <<>>
         /\ inbox' = Tail(inbox)
         /\ calls'[Cur + 1].prompt = Head(inbox)
         /\ prompt' = Head(inbox)
         /\ Head(inbox) \notin DeliveredTexts
         /\ \A j \in DOMAIN inbox' : inbox'[j] # Head(inbox)]_vars

C12_Witness ==
    /\ Cur = 2
    /\ calls[1].prompt = "hello"
    /\ calls[2].prompt = MessageText(1)
    /\ inbox = <<MessageText(2)>>

(* ---------------- C13: Terminated is absorbing -------------------------- *)

\* waitForIpcMessage finds the sentinel, with no message, in this step
WaitObservesSentinel ==
    pc = "AwaitingNext" /\ inbox = <<>> /\ sentinel /\ ~sentinel'

\* C13: waitForIpcMessage invoked with the sentinel present and no message
\* takes the orchestrator from AwaitingNext to Terminated, and once Terminated
\* no driver is invoked, nothing is waited for (the inbox and the sentinel
\* are not read) and no outbound record is written
C13_TerminatedIsAbsorbing ==
    [][/\ WaitObservesSentinel => pc' = "Terminated"
       /\ (pc = "AwaitingNext" /\ inbox = <<>> /\ sentinel /\ pc' # pc)
            => pc' = "Terminated"
       /\ pc = "Terminated"
            => /\ pc' = "Terminated"
               /\ Len(calls') = Len(calls)
               /\ out' = out
               /\ inbox' = inbox
               /\ sentinel' = sentinel]_vars

\* Terminated was reached from AwaitingNext, after a run that was not closed
\* during its query, and a timer left over from that run has fired since
C13_Witness ==
    /\ pc = "Terminated"
    /\ Cur = 2
    /\ calls[Cur].settled
    /\ ~calls[Cur].result.closedDuringQuery
    /\ runs[Cur].kind = "claude"
    /\ ~runs[Cur].timer
    /\ sentinelOrigin = "this-run"
    /\ ~sentinel

(* ---------------- C14: the poller stops with its invocation ------------ *)

\* the streaming invocations whose run has resolved
ResolvedStreaming ==
    {i \in DOMAIN runs : runs[i].kind = "claude" /\ calls[i].settled /\ ~calls[i].threw}

\* C14: once a streaming run has resolved, a timer callback of that run that
\* still fires reads no sentinel, drains no message and pushes nothing to
\* any feed, and arms no further timer
C14_PollerStopsWithRun ==
    [][\A i \in ResolvedStreaming :
          /\ ~runs[i].ipcPolling
          /\ runs'[i].stream = runs[i].stream
          /\ runs'[i].closedDuringQuery = runs[i].closedDuringQuery
          /\ runs'[i].timer => runs[i].timer
          /\ (runs[i].timer /\ ~runs'[i].timer)
                => /\ inbox' = inbox
                   /\ sentinel' = sentinel
                   /\ \A j \in DOMAIN runs :
                         runs[j].kind = "claude" => runs'[j].stream = runs[j].stream
      ]_vars

\* the timer left by the first run fired while the orchestrator was
\* waiting, with a message and the sentinel there to be taken
C14_Witness ==
    /\ pc = "AwaitingNext"
    /\ 1 \in ResolvedStreaming
    /\ ~runs[1].closedDuringQuery
    /\ ~runs[1].timer
    /\ inbox # <<>>
    /\ sentinel

(* ---------------- the feed with its consumer --------------------------- *)

\* one streaming container, no session to resume, no stale sentinel
FeedInit ==
    /\ pc = "Start"
    /\ stdinValid = TRUE
    /\ containerInput = [prompt |-> "hello", sessionId |-> Undefined,
                         isScheduledTask |-> FALSE, agentType |-> Undefined]
    /\ sessionId = Undefined
    /\ resumeAt = Undefined
    /\ prompt = Undefined
    /\ inbox = <<>>
    /\ sentinelOrigin = "none"
    /\ sentinel = FALSE
    /\ sent = 0
    /\ out = <<>>
    /\ calls = <<>>
    /\ runs = <<>>

\* the runner's steps that touch a feed, and the backend reading it
FeedNext ==
    \/ MainStart
    \/ WaitReturnsMessage
    \/ WaitReturnsClose
    \/ \E i \in DOMAIN runs : PollIpcDuringQuery(i)
    \/ StreamNext
    \/ ClaudeReturns
    \/ HostWriteMessage
    \/ HostWriteClose

FeedSpec == FeedInit /\ [][FeedNext]_vars

(* ---------------- C15: MessageStream is a FIFO queue ------------------- *)

\* C15: under every interleaving of push, end and the consumer's steps, what
\* the feed has yielded followed by what it still holds is what was pushed,
\* in push order; the generator returns only after end() and after yielding
\* every message pushed before end(); and it is never left suspended while
\* a message is queued or the feed is ended
C15_FeedIsFifo ==
    \A i \in DOMAIN runs :
        runs[i].kind = "claude" =>
            LET s == runs[i].stream
            IN  /\ s.fed \o s.queue = s.pushed
                /\ s.gen = "returned"
                     => s.done /\ s.queue = <<>> /\ Len(s.fed) >= s.endAt
                /\ s.gen = "suspended" => s.queue = <<>> /\ ~s.done

\* the consumer was given the prompt and two later messages, then the end
C15_Witness ==
    \E i \in DOMAIN runs :
        /\ runs[i].kind = "claude"
        /\ runs[i].stream.fed = <<"hello", MessageText(1), MessageText(2)>>
        /\ runs[i].stream.endAt = 3
        /\ runs[i].stream.gen = "returned"

(* ---------------- C16: what the feed receives --------------------------- *)

\* the poller of some run takes messages out of the inbox in this step
PollerDrains ==
    /\ pc \notin {"Start", "AwaitingNext"}
    /\ Len(inbox') < Len(inbox)

\* C16: the first text pushed to a run's feed is the run's prompt; whenever
\* the poller drains the inbox, the drained messages, none of them delivered
\* before, are appended to the feed of the run in flight in their order of
\* arrival; the feed grows in no other way, and not at all once the poller
\* has seen the sentinel and ended it
C16_FeedReceivesPromptThenMessages ==
    [][/\ \A i \in DOMAIN runs' :
             runs'[i].kind = "claude" =>
                /\ Len(runs'[i].stream.pushed) >= 1
                /\ runs'[i].stream.pushed[1] = calls'[i].prompt
       /\ \A i \in DOMAIN runs :
             (runs[i].kind = "claude"
              /\ runs'[i].stream.pushed # runs[i].stream.pushed)
             => /\ runs'[i].stream.pushed = runs[i].stream.pushed \o inbox
                /\ inbox' = <<>>
                /\ i = Cur
                /\ ~runs[i].stream.done
                /\ ~runs[i].closedDuringQuery
       /\ PollerDrains
             => /\ runs[Cur].kind = "claude"
                /\ runs'[Cur].stream.pushed = runs[Cur].stream.pushed \o inbox
                /\ \A j \in DOMAIN inbox :
                      /\ inbox[j] \notin DeliveredTexts
                      /\ \A k \in DOMAIN inbox : inbox[k] = inbox[j] => k = j
      ]_vars

\* the feed got the prompt, then two messages drained together, then the end
C16_Witness ==
    \E i \in DOMAIN runs :
        /\ runs[i].kind = "claude"
        /\ runs[i].stream.pushed = <<"hello", MessageText(1), MessageText(2)>>
        /\ runs[i].stream.done
        /\ runs[i].closedDuringQuery

(* ---------------- C17: one record per result event ---------------------- *)

\* the session id of the latest init event in events, if there is one
RECURSIVE LastInit(_)
LastInit(events) ==
    IF events = <<>> THEN Undefined
    ELSE IF events[Len(events)].type = "init" THEN events[Len(events)].value
    ELSE LastInit(SubSeq(events, 1, Len(events) - 1))

\* the streaming run i receives an event from its backend in this step
ReceivesEvent(i) ==
    runs[i].kind = "claude" /\ Len(runs'[i].events) = Len(runs[i].events) + 1

\* C17: a result event of a streaming run appends, at once and while the run
\* is unresolved, one success record with the event's text and the session id
\* of the latest init event of that run so far; no other event of the run
\* writes a record, and no record with a result text is written otherwise
C17_OneRecordPerResultEvent ==
    [][/\ \A i \in DOMAIN runs :
             ReceivesEvent(i) =>
                LET ev == runs'[i].events[Len(runs'[i].events)]
                IN  /\ i = Cur
                    /\ ~calls[i].settled
                    /\ ~calls'[i].settled
                    /\ out' = IF ev.type = "result"
                              THEN Append(out,
                                          [status |-> "success",
                                           result |-> ev.value,
                                           newSessionId |-> LastInit(runs[i].events),
                                           error |-> Undefined])
                              ELSE out
       /\ ((Cur > 0 /\ runs[Cur].kind = "claude")
           /\ ~(\E i \in DOMAIN runs : ReceivesEvent(i)))
             => \A k \in (DOMAIN out') \ (DOMAIN out) : out'[k].result = Null
      ]_vars

\* an init event named session s2 and the result event after it was reported
\* under s2, in a run that had been called with session s0
C17_Witness ==
    /\ Cur = 1
    /\ runs[1].kind = "claude"
    /\ calls[1].sessionId = "s0"
    /\ runs[1].events = <<[type |-> "init", value |-> "s2"],
                          [type |-> "result", value |-> "hi"]>>
    /\ out = <<[status |-> "success", result |-> "hi", newSessionId |-> "s2",
                error |-> Undefined]>>
    /\ ~calls[1].settled

(* ---------------- C18: a driver error is not retried -------------------- *)

\* the invocation in flight raises in this step
InvocationRaises ==
    /\ Cur > 0
    /\ Len(calls') = Cur
    /\ ~calls[Cur].threw
    /\ calls'[Cur].threw

\* C18: when a driver invocation raises, the orchestrator writes one error
\* record carrying the sessionId it holds and exits non-zero; after that no
\* driver is invoked, nothing is waited for and nothing more is written
C18_DriverErrorIsFinal ==
    [][/\ InvocationRaises
            => /\ pc' = "Failed"
               /\ sessionId' = sessionId
               /\ out' = Append(out, [status |-> "error", result |-> Null,
                                      newSessionId |-> sessionId,
                                      error |-> BackendErrorMessage])
       /\ (\E i \in DOMAIN calls : calls[i].threw)
            => /\ pc = "Failed"
               /\ pc' = "Failed"
               /\ Len(calls') = Len(calls)
               /\ out' = out
               /\ inbox' = inbox
               /\ sentinel' = sentinel]_vars

\* the second run saw an init event naming s2 and then raised; the error
\* record carries s1, the session the orchestrator held from the first run
C18_Witness ==
    /\ pc = "Failed"
    /\ Cur = 2
    /\ calls[2].threw
    /\ runs[2].newSessionId = "s2"
    /\ sessionId = "s1"
    /\ out[Len(out)] = [status |-> "error", result |-> Null, newSessionId |-> "s1",
                        error |-> BackendErrorMessage]

(* ---------------- C20: one record per external invocation --------------- *)

\* the subprocess of invocation i delivers its final events in this step
SubprocessEnds(i) ==
    /\ runs[i].kind = "opencode"
    /\ runs[i].proc = "running"
    /\ runs'[i].proc = "closed"

\* C20: whatever events the subprocess delivers, the handlers of an
\* external-process invocation write one record, which the orchestrator's
\* session-update record follows, and the invocation is resolved once
C20_OneRecordPerSubprocess ==
    [][\A i \in DOMAIN runs :
          SubprocessEnds(i) =>
             /\ ~calls[i].settled
             /\ calls'[i].settled
             /\ Len(out') = Len(out) + 2
             /\ out'[Len(out')] = [status |-> "success", result |-> Null,
                                   newSessionId |-> sessionId', error |-> Undefined]
      ]_vars

(* ---------------- termination under fair scheduling -------------------- *)

\* a container whose input parses, one of either backend
LiveInit ==
    /\ pc = "Start"
    /\ stdinValid = TRUE
    /\ containerInput \in [prompt : Prompts, sessionId : {Undefined},
                           isScheduledTask : {FALSE},
                           agentType : {Undefined, "opencode"}]
    /\ sessionId = Undefined
    /\ resumeAt = Undefined
    /\ prompt = Undefined
    /\ inbox = <<>>
    /\ sentinelOrigin \in {"none", "previous-run"}
    /\ sentinel = (sentinelOrigin = "previous-run")
    /\ sent = 0
    /\ out = <<>>
    /\ calls = <<>>
    /\ runs = <<>>

\* the host writes a message, and no more of them than the runner can take
\* up within MaxInvocations
LiveHostWriteMessage ==
    /\ sent + 1 < MaxInvocations
    /\ HostWriteMessage

\* the steps that decide whether the runner comes to an end
LiveNext ==
    \/ MainStart
    \/ WaitReturnsMessage
    \/ WaitReturnsClose
    \/ \E i \in DOMAIN runs : PollIpcDuringQuery(i)
    \/ ClaudeReturns
    \/ ClaudeThrows
    \/ \E i \in DOMAIN runs, code \in ExitCodes : ProcClose(i, code)
    \/ \E i \in DOMAIN runs : ProcError(i)
    \/ LiveHostWriteMessage
    \/ HostWriteClose

\* the timers and the polling loop of waitForIpcMessage keep firing, the
\* backend's loop comes to an end, the subprocess emits 'close' or 'error'
LiveFairness ==
    /\ WF_vars(MainStart)
    /\ WF_vars(WaitReturnsMessage)
    /\ WF_vars(WaitReturnsClose)
    /\ \A i \in 1..MaxInvocations :
          WF_vars(i \in DOMAIN runs /\ PollIpcDuringQuery(i))
    /\ WF_vars(ClaudeReturns)
    /\ WF_vars(\E i \in DOMAIN runs :
                  \/ \E code \in ExitCodes : ProcClose(i, code)
                  \/ ProcError(i))

LiveSpec == LiveInit /\ [][LiveNext]_vars /\ LiveFairness

(* ---------------- C19: the sentinel ends the runner --------------------- *)

\* C19: once the host has written the sentinel, the orchestrator reaches
\* Terminated unless an invocation raises, with either backend; and the step
\* in which a subprocess emits 'close' or 'error' resolves its invocation
C19_SentinelLeadsToTerminated ==
    /\ (sentinelOrigin = "this-run")
          ~> (pc = "Terminated" \/ \E i \in DOMAIN calls : calls[i].threw)
    /\ [][\A i \in DOMAIN runs :
             (runs[i].kind = "opencode" /\ runs[i].proc = "running"
              /\ runs'[i].proc # "running")
             => ~calls[i].settled /\ calls'[i].settled]_vars

\* the sentinel was written during the second run of an external-process
\* container, and the runner has terminated
C19_Witness ==
    /\ pc = "Terminated"
    /\ sentinelOrigin = "this-run"
    /\ Cur = 2
    /\ runs[Cur].kind = "opencode"
    /\ calls[Cur].settled

(* ---------------- C21: the external-process driver and the channel ----- *)

\* an external-process invocation is in flight
SubprocessInFlight == pc = "Running" /\ Cur > 0 /\ runs[Cur].kind = "opencode"

\* s is t with nothing taken away: t only adds messages at the end of s
IsPrefix(s, t) == Len(s) <= Len(t) /\ SubSeq(t, 1, Len(s)) = s

\* C21: while an external-process invocation is in flight the inbox only
\* grows and a sentinel that is there stays; the invocation resolves with
\* closedDuringQuery false, leaving both as they were, and the orchestrator
\* goes on to wait; that wait then hands over the earliest message as the
\* next prompt, or ends the loop on the sentinel when no message is there
C21_SubprocessLeavesChannel ==
    [][/\ SubprocessInFlight
            => /\ IsPrefix(inbox, inbox')
               /\ sentinel => sentinel'
               /\ \A i \in DOMAIN runs :
                     SubprocessEnds(i)
                     => /\ i = Cur
                        /\ ~calls'[i].result.closedDuringQuery
                        /\ inbox' = inbox
                        /\ sentinel' = sentinel
                        /\ pc' = "AwaitingNext"
       /\ (Cur > 0 /\ runs[Cur].kind = "opencode" /\ pc = "AwaitingNext"
           /\ pc' # pc)
            => IF inbox # <<>>
               THEN /\ pc' = "Running"
                    /\ calls'[Cur + 1].prompt = Head(inbox)
                    /\ inbox' = Tail(inbox)
                    /\ sentinel' = sentinel
               ELSE sentinel /\ pc' = "Terminated"
      ]_vars

\* two messages and the sentinel arrived, the subprocess has exited and the
\* orchestrator is about to wait with all three still there
C21_Witness ==
    /\ pc = "AwaitingNext"
    /\ Cur = 1
    /\ runs[1].kind = "opencode"
    /\ runs[1].proc = "closed"
    /\ calls[1].prompt = "hello"
    /\ calls[1].settled
    /\ ~calls[1].result.closedDuringQuery
    /\ inbox = <<MessageText(1), MessageText(2)>>
    /\ sentinel

(* ---------------- C22: continuity state is never unset again ----------- *)

\* the invocation n of cs has resolved (it did not raise)
Returned(cs, n) == cs[n].settled /\ ~cs[n].threw

\* the session id returned by the latest of the invocations 1..n of cs that
\* returned one, or the input's session id when none has
RECURSIVE LatestSessionId(_, _)
LatestSessionId(cs, n) ==
    IF n = 0 THEN containerInput.sessionId
    ELSE IF Returned(cs, n) /\ ~Falsy(cs[n].result.newSessionId)
    THEN cs[n].result.newSessionId
    ELSE LatestSessionId(cs, n - 1)

\* the last-assistant marker returned by the latest of the invocations 1..n
\* of cs that returned one, unset when none has
RECURSIVE LatestMarker(_, _)
LatestMarker(cs, n) ==
    IF n = 0 THEN Undefined
    ELSE IF Returned(cs, n) /\ ~Falsy(cs[n].result.lastAssistantUuid)
    THEN cs[n].result.lastAssistantUuid
    ELSE LatestMarker(cs, n - 1)

\* C22: sessionId and resumeAt, once they hold a value, hold one after every
\* step; after any sequence of invocations, also ones that returned no
\* session id or no marker, each holds the value returned by the latest
\* invocation that returned one (sessionId the input's until one has), and
\* each invocation was passed the values that held when it was started
\* (a step that changes neither the invocations nor the two values keeps this)
C22_ContinuityNeverReverts ==
    [][/\ ~Falsy(sessionId) => ~Falsy(sessionId')
       /\ ~Falsy(resumeAt) => ~Falsy(resumeAt')
       /\ (calls' # calls \/ sessionId' # sessionId \/ resumeAt' # resumeAt)
            => /\ sessionId' = LatestSessionId(calls', Len(calls'))
               /\ resumeAt' = LatestMarker(calls', Len(calls'))
               /\ \A i \in DOMAIN calls' :
                     /\ calls'[i].resumeAt = LatestMarker(calls', i - 1)
                     /\ calls'[i].sessionId = LatestSessionId(calls', i - 1)
      ]_vars

\* the first run returned session s1 and marker u1, the second returned
\* neither, and the orchestrator still holds s1 and u1
C22_Witness ==
    /\ Cur = 2
    /\ Returned(calls, 1)
    /\ calls[1].result.newSessionId = "s1"
    /\ calls[1].result.lastAssistantUuid = "u1"
    /\ calls[2].resumeAt = "u1"
    /\ Returned(calls, 2)
    /\ calls[2].result.newSessionId = Undefined
    /\ calls[2].result.lastAssistantUuid = Undefined
    /\ sessionId = "s1"
    /\ resumeAt = "u1"

====
